---- MODULE Spec2Model ----
(***************************************************************************)
(* MotivSphere: the streaming I/O engine of two ESP32 firmware images.     *)
(*                                                                         *)
(*   recorder  src/Speech_2_text.ino  I2S capture -> WAV file -> upload    *)
(*   player    src/unnamed/part_000   WAV playback, BMP slideshow, clock   *)
(*                                                                         *)
(* Both are single-threaded Arduino sketches.  A device runs exactly one   *)
(* of them; the variable "image" records which, and the variables of the   *)
(* other image keep their initial values.                                  *)
(*                                                                         *)
(* Library semantics the sketches rely on (ESP32 Arduino core):            *)
(*   - SD.open(path, FILE_WRITE) creates/truncates the file;               *)
(*   - File::write returns the count written, 0 on failure, and the        *)
(*     sketches ignore it;                                                 *)
(*   - File::read() returns -1 at end of file, read(buf,n) a short count;  *)
(*   - a File object releases (closes) its handle when it is destroyed.    *)
(* Operands of | in read16/read32 are taken left to right.                 *)
(***************************************************************************)
EXTENDS Integers, Sequences, FiniteSets, TLC

(***************************************************************************)
(* Bounds of the model (not program constants).                            *)
(***************************************************************************)
\* recordAudio(durationSec) is explored for durationSec in 0..MaxDurationSec
MaxDurationSec == 3

(***************************************************************************)
(* Program constants, recorder image.                                      *)
(***************************************************************************)
SAMPLE_RATE == 16000
SAMPLE_BITS == 16
CHANNELS == 1
\* sizeof(buffer) of recordAudio: int16_t buffer[512]
REC_BUFFER_BYTES == 1024
\* bytes written by writeWavHeader
WAV_HEADER_BYTES == 44

Min(a, b) == IF a <= b THEN a ELSE b
Max(a, b) == IF a >= b THEN a ELSE b

(***************************************************************************)
(* Little-endian encoding of a uint32 as the sketches do it:               *)
(*   (uint8_t)(v & 0xFF), (uint8_t)((v >> 8) & 0xFF), ... >> 24            *)
(* \div and % are floor division and non-negative remainder, so a          *)
(* negative d stands for the wrapped uint32 value 2^32 + d.                *)
(***************************************************************************)
LE32_BigEndian(v) ==
    << (v \div 16777216) % 256, (v \div 65536) % 256, (v \div 256) % 256, v % 256 >>

LE32(v) ==
    << v % 256, (v \div 256) % 256, (v \div 65536) % 256, (v \div 16777216) % 256 >>

\* What a reader of the file decodes from four bytes at 0-based offset off.
FieldLE(bytes, off) ==
    bytes[off + 1] + 256 * bytes[off + 2] + 65536 * bytes[off + 3]
        + 16777216 * bytes[off + 4]

(***************************************************************************)
(* The capture file.  The first 44 bytes are kept byte by byte (hdr); the  *)
(* payload behind them is kept as a length only: size is the file length   *)
(* and pos the write position.                                             *)
(***************************************************************************)
\* seeks counts the seek calls made on the stream.
EmptyFile == [hdr |-> << >>, size |-> 0, pos |-> 0, seeks |-> 0]

\* File::write(data, Len(data)) at the current position; ok = FALSE is a
\* failed write (returns 0, nothing stored, position unchanged).
FileWrite(f, data, ok) ==
    IF ~ok THEN f
    ELSE LET n == Len(data)
             newSize == Max(f.size, f.pos + n)
             keep == Min(WAV_HEADER_BYTES, newSize)
         IN  [seeks |-> f.seeks,
              hdr  |-> [i \in 1..keep |->
                          IF (i - 1) >= f.pos /\ (i - 1) < f.pos + n
                              THEN data[i - f.pos]
                          ELSE IF i <= Len(f.hdr) THEN f.hdr[i]
                          ELSE 0],
              size |-> newSize,
              pos  |-> f.pos + n]

\* File::seek(p)
FileSeek(f, p) == [f EXCEPT !.pos = p, !.seeks = f.seeks + 1]

\* n bytes of PCM samples (silence: zero bytes)
Pcm(n) == [i \in 1..n |-> 0]

\* audioFile.write((uint8_t *)buffer, bytesRead): only the length of the
\* payload is kept once the header is complete.
FileWritePcm(f, n, ok) ==
    IF ~ok THEN f
    ELSE IF f.pos >= WAV_HEADER_BYTES
        THEN [f EXCEPT !.size = Max(f.size, f.pos + n), !.pos = f.pos + n]
    ELSE FileWrite(f, Pcm(n), ok)

(***************************************************************************)
(* writeWavHeader: ten write calls.  okCount is the number of calls that   *)
(* succeed before the storage starts failing (10: all succeed).            *)
(***************************************************************************)
HeaderPieces(sampleRate, bitsPerSample, channels) ==
    LET byteRate == (sampleRate * channels * bitsPerSample) \div 8
    IN  << << 82, 73, 70, 70 >>,                         \* "RIFF"
           << 0, 0, 0, 0 >>,                             \* placeholder
           << 87, 65, 86, 69 >>,                         \* "WAVE"
           << 102, 109, 116, 32 >>,                      \* "fmt "
           << 16, 0, 0, 0, 1, 0, channels % 256, 0 >>,   \* fmt_chunk
           LE32(sampleRate),
           LE32(byteRate),
           << ((channels * bitsPerSample) \div 8) % 256, 0, bitsPerSample % 256, 0 >>,
           << 100, 97, 116, 97 >>,                       \* "data"
           << 0, 0, 0, 0 >> >>                           \* data size placeholder

HEADER_WRITES == 10

RECURSIVE WritePieces(_, _, _, _)
WritePieces(f, pieces, k, okCount) ==
    IF k > Len(pieces) THEN f
    ELSE WritePieces(FileWrite(f, pieces[k], k <= okCount), pieces, k + 1, okCount)

writeWavHeader_NoPlaceholder(f, sampleRate, bitsPerSample, channels, okCount) ==
    LET p == HeaderPieces(sampleRate, bitsPerSample, channels)
    IN  WritePieces(f, [k \in 1..9 |-> p[IF k >= 2 THEN k + 1 ELSE k]], 1, okCount)

writeWavHeader(f, sampleRate, bitsPerSample, channels, okCount) ==
    WritePieces(f, HeaderPieces(sampleRate, bitsPerSample, channels), 1, okCount)

(***************************************************************************)
(* finalizeWavHeader: fileSize = file.size(); seek(4); write LE32 of       *)
(* fileSize - 8; seek(40); write LE32 of fileSize - 44.  ok1, ok2: whether *)
(* the two writes succeed.                                                 *)
(***************************************************************************)
finalizeWavHeader_DataSizeFromRiff(f, ok1, ok2) ==
    LET fileSize == f.size
        f1 == FileWrite(FileSeek(f, 4), LE32(fileSize - 8), ok1)
    IN  FileWrite(FileSeek(f1, 40), LE32(fileSize - 8), ok2)

finalizeWavHeader(f, ok1, ok2) ==
    LET fileSize == f.size
        f1 == FileWrite(FileSeek(f, 4), LE32(fileSize - 8), ok1)
        data_chunk_size == fileSize - 44
    IN  FileWrite(FileSeek(f1, 40), LE32(data_chunk_size), ok2)

(***************************************************************************)
(* Program constants, player image.                                        *)
(***************************************************************************)
totalSongs == 5
totalImages == 4
interval == 1000
imageInterval == 5000
DEBOUNCE_DELAY == 50
BUFFER_SIZE == 4096
\* sizeof(sdbuffer): uint8_t sdbuffer[3 * 20]
SDBUFFER_BYTES == 60
\* 0x4D42, "BM" read little-endian
BMP_MAGIC == 19778

NextImage_ZeroBased(i) == (i + 1) % totalImages

\* line 129: the slideshow cursor, 1-based
NextImage(i) == (i % totalImages) + 1

\* line 141
NextSong(n) == (n + 1) % totalSongs

\* line 138
PrevSong(n) == (n - 1 + totalSongs) % totalSongs

(***************************************************************************)
(* Block storage as the player reads it.  A file is its byte sequence.     *)
(* File::read() at end of file returns -1; or-ed into the value read16 or  *)
(* read32 builds it sets every bit from that byte upwards, which is what   *)
(* the byte 255 in that place (and in all later places, the end of file    *)
(* being final) gives.  The position does not move at end of file.         *)
(***************************************************************************)
ByteAt(data, pos) == IF pos < Len(data) THEN data[pos + 1] ELSE 255

Advance(data, pos, n) == Min(pos + n, Max(pos, Len(data)))

\* read16: f.read() | (f.read() << 8), as uint16_t
read16(data, pos) == ByteAt(data, pos) + 256 * ByteAt(data, pos + 1)

\* read32 stored into an int32_t (bmpWidth, bmpHeight): two's complement
read32s(data, pos) ==
    LET b3 == ByteAt(data, pos + 3)
    IN  ByteAt(data, pos) + 256 * ByteAt(data, pos + 1)
          + 65536 * ByteAt(data, pos + 2)
          + 16777216 * (IF b3 >= 128 THEN b3 - 256 ELSE b3)

\* read32 as uint32_t (bmpImageOffset); the files of the model keep it
\* below 2^31
read32(data, pos) ==
    ByteAt(data, pos) + 256 * ByteAt(data, pos + 1)
      + 65536 * ByteAt(data, pos + 2) + 16777216 * ByteAt(data, pos + 3)

read32IsZero_Unchecked(data, pos) == TRUE

\* read32(bmpFile) != 0
read32IsZero(data, pos) ==
    \A k \in 0..3 : ByteAt(data, pos + k) = 0

\* File::read(buf, n): the bytes from pos to the end of file, at most n
ReadCount(data, pos, n) == IF pos >= Len(data) THEN 0 ELSE Min(n, Len(data) - pos)

\* rowSize = (bmpWidth * 3 + 3) & ~3
rowSizeOf_NoPadding(bmpWidth) == bmpWidth * 3

rowSizeOf(bmpWidth) ==
    LET x == bmpWidth * 3 + 3 IN x - (x % 4)

\* display.color565(r, g, b): ((r & 0xF8) << 8) | ((g & 0xFC) << 3) | (b >> 3)
color565(r, g, b) == (r \div 8) * 2048 + (g \div 4) * 32 + (b \div 8)

(***************************************************************************)
(* Bitmap files of the model.  A file is built from its header fields and  *)
(* its pixel rows in storage order; pixel (s, c) of storage row s has the  *)
(* colour StoredBGR(s, c), distinct for every row and column, and rows     *)
(* are padded with zero bytes to a multiple of four.                       *)
(***************************************************************************)
StoredBGR(s, c) == << 8 * (s + 1), 4 * (c + 1), 8 * (s + c + 2) >>

RECURSIVE Flatten(_)
Flatten(ss) == IF ss = << >> THEN << >> ELSE Head(ss) \o Flatten(Tail(ss))

Zeros(n) == [i \in 1..n |-> 0]

StrideOnDisk(w) == ((3 * w + 3) \div 4) * 4

StoredRow(s, w) ==
    Flatten([c \in 1..w |-> StoredBGR(s, c - 1)]) \o Zeros(StrideOnDisk(w) - 3 * w)

PixelData(w, H) == Flatten([s \in 1..H |-> StoredRow(s - 1, w)])

Abs(x) == IF x < 0 THEN -x ELSE x

\* a 32-bit field as it lies on disk (two's complement, low byte first)
Le4(v) == [k \in 1..4 |-> (v \div (256 ^ (k - 1))) % 256]

\* 14-byte file header + 40-byte info header + pixel rows
BmpBytes(magic, w, h, bpp, compression) ==
    LET pix == PixelData(w, Abs(h))
    IN  magic \o Le4(54 + Len(pix)) \o Zeros(4) \o Le4(54)
          \o Le4(40) \o Le4(w) \o Le4(h)
          \o << 1, 0 >> \o << bpp % 256, bpp \div 256 >> \o Le4(compression)
          \o Le4(Len(pix)) \o Zeros(16)
          \o pix

BM == << 66, 77 >>

\* The malformed files: wrong magic, one-byte file, empty file, 16 bits
\* per pixel, RLE-compressed.
MalformedBmps ==
    { BmpBytes(<< 77, 66 >>, 1, 1, 24, 0),
      << 66 >>,
      << >>,
      BmpBytes(BM, 1, 1, 16, 0),
      BmpBytes(BM, 1, 1, 24, 1) }

ValidBmp(w, h) == BmpBytes(BM, w, h, 24, 0)

\* Widths and heights of the valid bitmaps the decoder is run on: 0..5 give
\* every remainder of 3w by 4, 4x4 is the hand-built example, 20 fills the
\* row cache exactly and 21 overflows it; a positive height is bottom-up
\* storage.
BmpWidths == {0, 1, 2, 3, 4, 5, 20, 21}
BmpHeights == {-4, -2, -1, 1, 2, 4}

\* The images a card may hold: "small" for the main loop, "wide" for the
\* decoder on its own.
CardImages(c) ==
    IF c = "wide"
        THEN MalformedBmps \cup {ValidBmp(w, h) : w \in BmpWidths, h \in BmpHeights}
    ELSE IF c = "no_images" THEN {}
    ELSE MalformedBmps \cup {ValidBmp(1, 1), ValidBmp(2, -2)}

\* Lengths in bytes of the song files a card may hold.
CardSongs(c) ==
    IF c = "long" THEN {0, 1, 2, 4095, 4096, 4097, 8192, 8193}
    ELSE IF c = "no_images" THEN {2}
    ELSE {0, 4097}

\* Values an uninitialised stack byte may hold (sdbuffer is not
\* initialised); one value for the whole array per call.
UninitBytes == {0, 85, 255}

(***************************************************************************)
(* State.                                                                  *)
(***************************************************************************)
VARIABLES
    image,            \* "recorder" or "player": the firmware on the device
    openStreams,      \* the storage streams open now, in opening order
    \* ---- recorder image ----
    rpc,              \* position of setup() in Speech_2_text.ino
    durationSec,      \* argument of recordAudio
    samplesRecorded,  \* local of recordAudio
    wav,              \* /recorded_audio.wav as written through audioFile
    sdOk,             \* FALSE once a write to the storage has failed
    payloadBytes,     \* history: PCM bytes stored by successful writes
    events,           \* history: the stream events of the capture sequence
    \* ---- player image ----
    ppc,                  \* position in setup() / loop() of the player
    card,                 \* which images and songs the SD card may hold
    now,                  \* millis(): milliseconds since boot
    previousMillis,
    previousImageMillis,
    lastButtonPressTime,
    currentSong,
    currentImage,
    clockTicks,           \* adjustTime(1) calls since setTime
    imageAdvances,        \* history: slideshow advances since boot
    bmp,                  \* locals of the running displayBMP call
    bmpExit,              \* history: how the last displayBMP call returned
    tft2,                 \* the render sink: address window and pixels
    play                  \* locals of the running playSong call

recVars == << rpc, durationSec, samplesRecorded, wav, sdOk, payloadBytes, events >>
loopVars == << now, previousMillis, previousImageMillis, lastButtonPressTime,
               currentSong, currentImage, clockTicks, imageAdvances >>
playerVars == << ppc, card, loopVars, bmp, bmpExit, tft2, play >>
vars == << image, openStreams, recVars, playerVars >>

\* close(): the stream leaves the open set (first occurrence).
RECURSIVE Remove(_, _)
Remove(s, x) ==
    IF s = << >> THEN << >>
    ELSE IF Head(s) = x THEN Tail(s)
    ELSE << Head(s) >> \o Remove(Tail(s), x)

\* The history keeps one "payload" entry for a run of payload writes.
Logged(ev) ==
    IF ev = "payload" /\ events # << >> /\ events[Len(events)] = "payload"
        THEN events
    ELSE Append(events, ev)

\* Outcomes of one write call: a failed storage keeps failing.
WriteOutcomes == IF sdOk THEN {TRUE, FALSE} ELSE {FALSE}

\* Byte counts i2s_read may report for a 1024-byte request: the full chunk
\* or a partial one.
ReadCounts == {REC_BUFFER_BYTES, REC_BUFFER_BYTES \div 2}

RecInit ==
    /\ rpc = "boot"
    /\ durationSec \in 0..MaxDurationSec
    /\ samplesRecorded = 0
    /\ wav = EmptyFile
    /\ sdOk = TRUE
    /\ payloadBytes = 0
    /\ events = << >>

(***************************************************************************)
(* setup(), lines 93-136: Wi-Fi, SD.begin, I2S driver, SD.open.            *)
(***************************************************************************)
RecBegin ==
    /\ image = "recorder" /\ rpc = "boot"
    /\ \E mounted \in BOOLEAN : rpc' = IF mounted THEN "open" ELSE "no_card"
    /\ UNCHANGED << playerVars, image, openStreams, durationSec, samplesRecorded, wav, sdOk,
                    payloadBytes, events >>

RecOpen ==
    /\ image = "recorder" /\ rpc = "open"
    /\ \E opened \in BOOLEAN :
          IF opened
              THEN /\ openStreams' = Append(openStreams, "audioFile")
                   /\ wav' = EmptyFile
                   /\ events' = Logged("open")
                   /\ rpc' = "header"
          ELSE /\ rpc' = "no_file"
               /\ UNCHANGED << openStreams, wav, events >>
    /\ UNCHANGED << playerVars, image, durationSec, samplesRecorded, sdOk, payloadBytes >>

\* line 138
RecWriteHeader ==
    /\ image = "recorder" /\ rpc = "header"
    /\ \E okCount \in (IF sdOk THEN 0..HEADER_WRITES ELSE {0}) :
          /\ wav' = writeWavHeader(wav, SAMPLE_RATE, SAMPLE_BITS, CHANNELS, okCount)
          /\ sdOk' = (sdOk /\ okCount = HEADER_WRITES)
    /\ events' = Logged("header")
    /\ rpc' = "record"
    /\ UNCHANGED << playerVars, image, openStreams, durationSec, samplesRecorded, payloadBytes >>

(***************************************************************************)
(* recordAudio, lines 199-214: one iteration of the while loop.            *)
(***************************************************************************)
totalSamples == SAMPLE_RATE * durationSec

RecordChunk_OneMore ==
    /\ image = "recorder" /\ rpc = "record"
    /\ samplesRecorded <= totalSamples
    /\ \E bytesRead \in ReadCounts, ok \in WriteOutcomes :
          /\ wav' = FileWritePcm(wav, bytesRead, ok)
          /\ sdOk' = ok
          /\ payloadBytes' = IF ok THEN payloadBytes + bytesRead ELSE payloadBytes
          /\ samplesRecorded' = samplesRecorded + bytesRead \div (SAMPLE_BITS \div 8)
    /\ events' = Logged("payload")
    /\ UNCHANGED << playerVars, image, openStreams, rpc, durationSec >>

RecordChunk ==
    /\ image = "recorder" /\ rpc = "record"
    /\ samplesRecorded < totalSamples
    /\ \E bytesRead \in ReadCounts, ok \in WriteOutcomes :
          /\ wav' = FileWritePcm(wav, bytesRead, ok)
          /\ sdOk' = ok
          /\ payloadBytes' = IF ok THEN payloadBytes + bytesRead ELSE payloadBytes
          /\ samplesRecorded' = samplesRecorded + bytesRead \div (SAMPLE_BITS \div 8)
    /\ events' = Logged("payload")
    /\ UNCHANGED << playerVars, image, openStreams, rpc, durationSec >>

\* recordAudio returns (loop condition false); line 141 finalizeWavHeader.
RecFinalize ==
    /\ image = "recorder" /\ rpc = "record"
    /\ ~(samplesRecorded < totalSamples)
    /\ \E ok1 \in WriteOutcomes :
          \E ok2 \in (IF ok1 THEN {TRUE, FALSE} ELSE {FALSE}) :
              /\ wav' = finalizeWavHeader(wav, ok1, ok2)
              /\ sdOk' = ok2
    /\ events' = Logged("finalize")
    /\ rpc' = "close"
    /\ UNCHANGED << playerVars, image, openStreams, durationSec, samplesRecorded, payloadBytes >>

RecClose_BeforeFinalize ==
    /\ image = "recorder" /\ rpc \in {"record", "close"}
    /\ ~(samplesRecorded < totalSamples)
    /\ openStreams' = Remove(openStreams, "audioFile")
    /\ events' = Logged("close")
    /\ rpc' = "upload"
    /\ UNCHANGED << playerVars, image, durationSec, samplesRecorded, wav, sdOk,
                    payloadBytes >>

\* line 142 audioFile.close()
RecClose ==
    /\ image = "recorder" /\ rpc = "close"
    /\ openStreams' = Remove(openStreams, "audioFile")
    /\ events' = Logged("close")
    /\ rpc' = "upload"
    /\ UNCHANGED << playerVars, image, durationSec, samplesRecorded, wav, sdOk, payloadBytes >>

(***************************************************************************)
(* uploadToDeepgram, lines 216-246.                                        *)
(***************************************************************************)
UploadOpen ==
    /\ image = "recorder" /\ rpc = "upload"
    /\ events' = Logged("upload")
    /\ \E opened \in BOOLEAN :
          IF opened
              THEN /\ openStreams' = Append(openStreams, "uploadFile")
                   /\ rpc' = "send"
          ELSE /\ rpc' = "done"
               /\ UNCHANGED openStreams
    /\ UNCHANGED << playerVars, image, durationSec, samplesRecorded, wav, sdOk, payloadBytes >>

\* Wi-Fi connected or not, response code > 0 or not; file.close() on all.
UploadSend ==
    /\ image = "recorder" /\ rpc = "send"
    /\ \E wifi \in BOOLEAN, httpOk \in BOOLEAN :
          openStreams' = Remove(openStreams, "uploadFile")
    /\ rpc' = "done"
    /\ UNCHANGED << playerVars, image, durationSec, samplesRecorded, wav, sdOk, payloadBytes,
                    events >>

(***************************************************************************)
(* Player image.                                                           *)
(***************************************************************************)
\* Bound of the model: the loop is followed until millis() reaches this.
MaxMillis == 5000

\* Range of the millisecond counter, in seconds (2^32 ms on the device).
WrapSeconds == 7
MillisWrap == WrapSeconds * 1000

\* Milliseconds that pass between two readings of millis().
Elapsed == {0, 1000}

BmpIdle ==
    [data |-> << >>, pos |-> 0, bmpImageOffset |-> 0, bmpWidth |-> 0,
     bmpHeight |-> 0, rowSize |-> 0, flip |-> FALSE, row |-> 0, col |-> 0,
     buffidx |-> 0, sdbuffer |-> << >>, sinkCalls |-> 0, entry |-> << >>,
     ret |-> "none"]

NoExit == [result |-> "none", sinkCalls |-> 0, bytesRead |-> 0, frameChanged |-> FALSE]

\* result tells how the call went: "nofile" when it returned at line 180 or
\* 182, "open" while it streams, "played" once it has closed the file.
PlayIdle ==
    [len |-> 0, pos |-> 0, chunk |-> 0, bytesRead |-> 0, bytesWritten |-> 0,
     result |-> "none"]

BlankScreen == [win |-> << >>, px |-> << >>]

\* The locals of a displayBMP call that will return to position ret.
BmpCall(ret) == [BmpIdle EXCEPT !.ret = ret, !.entry = tft2]

PlayerInit ==
    /\ ppc = "boot"
    /\ card = "small"
    /\ now = 0
    /\ previousMillis = 0
    /\ previousImageMillis = 0
    /\ lastButtonPressTime = 0
    /\ currentSong = 0
    /\ currentImage = 1
    /\ clockTicks = 0 /\ imageAdvances = 0
    /\ bmp = BmpIdle
    /\ bmpExit = NoExit
    /\ tft2 = BlankScreen
    /\ play = PlayIdle

(***************************************************************************)
(* setup(), lines 87-112.  A failed SD.begin halts the device (while(1)).  *)
(* displayTextFromFile (lines 211-234) opens /text.txt, prints it on the   *)
(* first display and closes it; only its stream is modelled.               *)
(***************************************************************************)
PlayerBegin ==
    /\ image = "player" /\ ppc = "boot"
    /\ \E mounted \in BOOLEAN : ppc' = IF mounted THEN "text_open" ELSE "halt"
    /\ UNCHANGED << recVars, image, openStreams, card, loopVars, bmp, bmpExit,
                    tft2, play >>

TextOpen ==
    /\ image = "player" /\ ppc = "text_open"
    /\ \E opened \in BOOLEAN :
          IF opened
              THEN /\ openStreams' = Append(openStreams, "textFile")
                   /\ ppc' = "text_close"
                   /\ bmp' = bmp
          ELSE /\ ppc' = "bmp_open"
               /\ bmp' = BmpCall("loop")
               /\ UNCHANGED openStreams
    /\ UNCHANGED << recVars, image, card, loopVars, bmpExit, tft2, play >>

TextClose ==
    /\ image = "player" /\ ppc = "text_close"
    /\ openStreams' = Remove(openStreams, "textFile")
    /\ ppc' = "bmp_open"
    /\ bmp' = BmpCall("loop")
    /\ UNCHANGED << recVars, image, card, loopVars, bmpExit, tft2, play >>

(***************************************************************************)
(* displayBMP, lines 247-285.  bmpFile is a local File: when the function  *)
(* returns, the object is destroyed and its handle released.               *)
(***************************************************************************)
BmpReturn_LeakOnError(result, pos, closes) ==
    /\ bmpExit' = [result |-> result, sinkCalls |-> bmp.sinkCalls,
                   bytesRead |-> pos, frameChanged |-> (tft2 # bmp.entry)]
    /\ openStreams' = IF closes /\ result = "drawn"
                          THEN Remove(openStreams, "bmpFile") ELSE openStreams
    /\ bmp' = BmpIdle
    /\ ppc' = bmp.ret
    /\ UNCHANGED tft2

\* The return of displayBMP: result names the exit path, closes says whether
\* a stream was open at that point.
BmpReturn(result, pos, closes) ==
    /\ bmpExit' = [result |-> result, sinkCalls |-> bmp.sinkCalls,
                   bytesRead |-> pos, frameChanged |-> (tft2 # bmp.entry)]
    /\ openStreams' = IF closes THEN Remove(openStreams, "bmpFile") ELSE openStreams
    /\ bmp' = BmpIdle
    /\ ppc' = bmp.ret
    /\ UNCHANGED tft2

\* line 248: File bmpFile = SD.open(filename); !bmpFile returns
BmpOpen ==
    /\ image = "player" /\ ppc = "bmp_open"
    /\ \/ \E f \in CardImages(card) :
             /\ openStreams' = Append(openStreams, "bmpFile")
             /\ bmp' = [bmp EXCEPT !.data = f, !.pos = 0]
             /\ ppc' = "bmp_magic"
             /\ UNCHANGED << bmpExit, tft2 >>
       \/ BmpReturn("nofile", 0, FALSE)
    /\ UNCHANGED << recVars, image, card, loopVars, play >>

\* line 249: read16(bmpFile) != 0x4D42 returns
BmpMagic ==
    /\ image = "player" /\ ppc = "bmp_magic"
    /\ LET p == Advance(bmp.data, bmp.pos, 2)
       IN  IF read16(bmp.data, bmp.pos) # BMP_MAGIC
               THEN BmpReturn("badmagic", p, TRUE)
           ELSE /\ bmp' = [bmp EXCEPT !.pos = p]
                /\ ppc' = "bmp_header"
                /\ UNCHANGED << openStreams, bmpExit, tft2 >>
    /\ UNCHANGED << recVars, image, card, loopVars, play >>

\* lines 251-267: the header fields, the format checks, setAddrWindow
BmpHeader ==
    /\ image = "player" /\ ppc = "bmp_header"
    /\ LET d == bmp.data
           pOff == Advance(d, Advance(d, bmp.pos, 4), 4)
           pHdr == Advance(d, pOff, 4)
           pW == Advance(d, pHdr, 4)
           pH == Advance(d, pW, 4)
           pPlanes == Advance(d, pH, 4)
           pBpp == Advance(d, pPlanes, 2)
           pComp == Advance(d, pBpp, 2)
           pEnd == Advance(d, pComp, 4)
       IN  IF read16(d, pBpp) # 24
               THEN BmpReturn("badformat", pComp, TRUE)
           ELSE IF ~read32IsZero(d, pComp)
               THEN BmpReturn("badformat", pEnd, TRUE)
           ELSE LET w == read32s(d, pW)
                    h == read32s(d, pH)
                IN  /\ \E g \in UninitBytes :
                          bmp' = [bmp EXCEPT
                                    !.pos = pEnd,
                                    !.bmpImageOffset = read32(d, pOff),
                                    !.bmpWidth = w,
                                    !.bmpHeight = Abs(h),
                                    !.rowSize = rowSizeOf(w),
                                    !.flip = (h > 0),
                                    !.row = 0, !.col = 0,
                                    !.sdbuffer = [i \in 1..SDBUFFER_BYTES |-> g],
                                    !.buffidx = SDBUFFER_BYTES,
                                    !.sinkCalls = bmp.sinkCalls + 1]
                    /\ tft2' = [tft2 EXCEPT !.win = << 0, 0, w - 1, Abs(h) - 1 >>]
                    /\ ppc' = "bmp_row"
                    /\ UNCHANGED << openStreams, bmpExit >>
    /\ UNCHANGED << recVars, image, card, loopVars, play >>

\* lines 269-271: head of the row loop; seek only if the position differs
BmpRow ==
    /\ image = "player" /\ ppc = "bmp_row"
    /\ IF bmp.row < bmp.bmpHeight
           THEN LET pos == bmp.bmpImageOffset
                             + (IF bmp.flip THEN bmp.bmpHeight - 1 - bmp.row
                                ELSE bmp.row) * bmp.rowSize
                IN  /\ bmp' = [bmp EXCEPT !.pos = pos, !.col = 0]
                    /\ ppc' = "bmp_pixel"
       ELSE /\ ppc' = "bmp_close"
            /\ bmp' = bmp
    /\ UNCHANGED << recVars, image, openStreams, card, loopVars, bmpExit, tft2, play >>

Refill_OffByOne(b) ==
    LET n == ReadCount(b.data, b.pos, SDBUFFER_BYTES)
    IN  [b EXCEPT !.sdbuffer = [i \in 1..SDBUFFER_BYTES |->
                                  IF i <= n THEN b.data[b.pos + i] ELSE b.sdbuffer[i]],
                  !.pos = b.pos + n,
                  !.buffidx = 1]

\* bmpFile.read(sdbuffer, sizeof(sdbuffer)): a short read leaves the rest
\* of the cache as it was
Refill(b) ==
    LET n == ReadCount(b.data, b.pos, SDBUFFER_BYTES)
    IN  [b EXCEPT !.sdbuffer = [i \in 1..SDBUFFER_BYTES |->
                                  IF i <= n THEN b.data[b.pos + i] ELSE b.sdbuffer[i]],
                  !.pos = b.pos + n,
                  !.buffidx = 0]

\* lines 273-282: one pixel of the row, or the end of the row
BmpPixel ==
    /\ image = "player" /\ ppc = "bmp_pixel"
    /\ IF bmp.col < bmp.bmpWidth
           THEN LET c == IF bmp.buffidx >= SDBUFFER_BYTES THEN Refill(bmp) ELSE bmp
                    b == c.sdbuffer[c.buffidx + 1]
                    g == c.sdbuffer[c.buffidx + 2]
                    r == c.sdbuffer[c.buffidx + 3]
                IN  /\ tft2' = [tft2 EXCEPT
                                  !.px = (<< bmp.col, bmp.row >> :> color565(r, g, b)) @@ @]
                    /\ bmp' = [c EXCEPT !.buffidx = c.buffidx + 3,
                                        !.col = bmp.col + 1,
                                        !.sinkCalls = bmp.sinkCalls + 1]
                    /\ ppc' = ppc
       ELSE /\ bmp' = [bmp EXCEPT !.row = bmp.row + 1]
            /\ ppc' = "bmp_row"
            /\ tft2' = tft2
    /\ UNCHANGED << recVars, image, openStreams, card, loopVars, bmpExit, play >>

\* line 284: bmpFile.close()
BmpClose ==
    /\ image = "player" /\ ppc = "bmp_close"
    /\ BmpReturn("drawn", bmp.pos, TRUE)
    /\ UNCHANGED << recVars, image, card, loopVars, play >>

(***************************************************************************)
(* playSong, lines 178-192.                                                *)
(***************************************************************************)
\* Byte counts i2s_write may report as written for a request of n bytes:
\* all of them or a part.
TxAccepts(n) == {n, (n \div 4) * 2}

PlayOpen_NoExistsCheck ==
    /\ image = "player" /\ ppc = "play_open"
    /\ \/ \E len \in CardSongs(card) :
             /\ openStreams' = Append(openStreams, "audioFile")
             /\ play' = [PlayIdle EXCEPT !.len = len, !.result = "open"]
       \/ /\ openStreams' = Append(openStreams, "audioFile")
          /\ play' = [PlayIdle EXCEPT !.result = "nofile"]
    /\ ppc' = "play_chunk"
    /\ UNCHANGED << recVars, image, card, loopVars, bmp, bmpExit, tft2 >>

\* lines 179-182: SD.exists / SD.open; a missing file returns at once
PlayOpen ==
    /\ image = "player" /\ ppc = "play_open"
    /\ \/ \E len \in CardSongs(card) :
             /\ openStreams' = Append(openStreams, "audioFile")
             /\ play' = [PlayIdle EXCEPT !.len = len, !.result = "open"]
             /\ ppc' = "play_chunk"
       \/ /\ play' = [PlayIdle EXCEPT !.result = "nofile"]
          /\ ppc' = "button"
          /\ UNCHANGED openStreams
    /\ UNCHANGED << recVars, image, card, loopVars, bmp, bmpExit, tft2 >>

PlayChunk_NoAdvance ==
    /\ image = "player" /\ ppc = "play_chunk"
    /\ play.pos < play.len
    /\ LET k == Min(BUFFER_SIZE, play.len - play.pos)
           bytesRead == IF k % 2 # 0 THEN k - 1 ELSE k
       IN  \E bytesWritten \in TxAccepts(bytesRead) :
               play' = [play EXCEPT !.chunk = k,
                                    !.bytesRead = bytesRead,
                                    !.bytesWritten = bytesWritten]
    /\ UNCHANGED << recVars, image, openStreams, ppc, card, loopVars, bmp, bmpExit,
                    tft2 >>

\* lines 185-190: one iteration of while (audioFile.available())
PlayChunk ==
    /\ image = "player" /\ ppc = "play_chunk"
    /\ play.pos < play.len
    /\ LET k == Min(BUFFER_SIZE, play.len - play.pos)
           bytesRead == IF k % 2 # 0 THEN k - 1 ELSE k
       IN  \E bytesWritten \in TxAccepts(bytesRead) :
               play' = [play EXCEPT !.pos = play.pos + k,
                                    !.chunk = k,
                                    !.bytesRead = bytesRead,
                                    !.bytesWritten = bytesWritten]
    /\ UNCHANGED << recVars, image, openStreams, ppc, card, loopVars, bmp, bmpExit,
                    tft2 >>

PlayClose_KeepsOpen ==
    /\ image = "player" /\ ppc = "play_chunk"
    /\ ~(play.pos < play.len)
    /\ play' = [play EXCEPT !.result = "played"]
    /\ ppc' = "button"
    /\ UNCHANGED << recVars, image, openStreams, card, loopVars, bmp, bmpExit, tft2 >>

\* line 191: audioFile.close()
PlayClose ==
    /\ image = "player" /\ ppc = "play_chunk"
    /\ ~(play.pos < play.len)
    /\ openStreams' = Remove(openStreams, "audioFile")
    /\ play' = [play EXCEPT !.result = "played"]
    /\ ppc' = "button"
    /\ UNCHANGED << recVars, image, card, loopVars, bmp, bmpExit, tft2 >>

(***************************************************************************)
(* loop(), lines 117-143.  millis() is read at line 118 and, when the      *)
(* button is held, at line 135; time passes between the readings.  The     *)
(* counter is an unsigned word, so the differences of lines 120, 126 and   *)
(* 136 are taken modulo its range; the range is scaled down to MillisWrap. *)
(* wraps = FALSE follows the counter up to MaxMillis, wraps = TRUE lets it *)
(* run on and wrap; the two history counters are kept while it is capped.  *)
(***************************************************************************)
Since(t, t0) == (t - t0) % MillisWrap

Millis(wraps, d) ==
    IF wraps THEN now' = (now + d) % MillisWrap
    ELSE now + d <= MaxMillis /\ now' = now + d

LoopGatesAt_NoRearm(wraps) ==
    /\ image = "player" /\ ppc = "loop"
    /\ \E d \in Elapsed : Millis(wraps, d)
    /\ LET currentMillis == now'
           tick == Since(currentMillis, previousMillis) >= interval
           slide == Since(currentMillis, previousImageMillis) >= imageInterval
       IN  /\ previousMillis' = previousMillis
           /\ clockTicks' = IF tick /\ ~wraps THEN clockTicks + 1 ELSE clockTicks
           /\ previousImageMillis' = IF slide THEN currentMillis ELSE previousImageMillis
           /\ currentImage' = IF slide THEN NextImage(currentImage) ELSE currentImage
           /\ imageAdvances' = IF slide /\ ~wraps THEN imageAdvances + 1
                               ELSE imageAdvances
           /\ IF slide
                  THEN /\ ppc' = "bmp_open"
                       /\ bmp' = BmpCall("play_open")
              ELSE /\ ppc' = "play_open"
                   /\ bmp' = bmp
    /\ UNCHANGED << recVars, image, openStreams, card, lastButtonPressTime,
                    currentSong, bmpExit, tft2, play >>

LoopGatesAt_ElseIf(wraps) ==
    /\ image = "player" /\ ppc = "loop"
    /\ \E d \in Elapsed : Millis(wraps, d)
    /\ LET currentMillis == now'
           tick == Since(currentMillis, previousMillis) >= interval
           slide == /\ ~tick
                    /\ Since(currentMillis, previousImageMillis) >= imageInterval
       IN  /\ previousMillis' = IF tick THEN currentMillis ELSE previousMillis
           /\ clockTicks' = IF tick /\ ~wraps THEN clockTicks + 1 ELSE clockTicks
           /\ previousImageMillis' = IF slide THEN currentMillis ELSE previousImageMillis
           /\ currentImage' = IF slide THEN NextImage(currentImage) ELSE currentImage
           /\ imageAdvances' = IF slide /\ ~wraps THEN imageAdvances + 1
                               ELSE imageAdvances
           /\ IF slide
                  THEN /\ ppc' = "bmp_open"
                       /\ bmp' = BmpCall("play_open")
              ELSE /\ ppc' = "play_open"
                   /\ bmp' = bmp
    /\ UNCHANGED << recVars, image, openStreams, card, lastButtonPressTime,
                    currentSong, bmpExit, tft2, play >>

\* lines 118-130: the two periodic gates
LoopGatesAt(wraps) ==
    /\ image = "player" /\ ppc = "loop"
    /\ \E d \in Elapsed : Millis(wraps, d)
    /\ LET currentMillis == now'
           tick == Since(currentMillis, previousMillis) >= interval
           slide == Since(currentMillis, previousImageMillis) >= imageInterval
       IN  /\ previousMillis' = IF tick THEN currentMillis ELSE previousMillis
           /\ clockTicks' = IF tick /\ ~wraps THEN clockTicks + 1 ELSE clockTicks
           /\ previousImageMillis' = IF slide THEN currentMillis ELSE previousImageMillis
           /\ currentImage' = IF slide THEN NextImage(currentImage) ELSE currentImage
           /\ imageAdvances' = IF slide /\ ~wraps THEN imageAdvances + 1
                               ELSE imageAdvances
           /\ IF slide
                  THEN /\ ppc' = "bmp_open"
                       /\ bmp' = BmpCall("play_open")
              ELSE /\ ppc' = "play_open"
                   /\ bmp' = bmp
    /\ UNCHANGED << recVars, image, openStreams, card, lastButtonPressTime,
                    currentSong, bmpExit, tft2, play >>

LoopGates == LoopGatesAt(FALSE)

LoopGatesLive == LoopGatesAt(TRUE)

\* lines 134 and 140-142: digitalRead(PREV_BUTTON_PIN); low is TRUE when the
\* pin reads LOW.  A released button steps to the next song.  The locals
\* of the playSong call that has returned are dropped here.
LoopSample ==
    /\ image = "player" /\ ppc = "button"
    /\ \E low \in BOOLEAN :
          IF low
              THEN /\ ppc' = "pressed"
                   /\ UNCHANGED currentSong
          ELSE /\ currentSong' = NextSong(currentSong)
               /\ ppc' = "loop"
    /\ play' = PlayIdle
    /\ UNCHANGED << recVars, image, openStreams, card, now, previousMillis,
                    previousImageMillis, lastButtonPressTime, currentImage,
                    clockTicks, imageAdvances, bmp, bmpExit, tft2 >>

LoopPressedAt_KeepsLast(wraps) ==
    /\ image = "player" /\ ppc = "pressed"
    /\ \E d \in Elapsed : Millis(wraps, d)
    /\ LET currentTime == now'
       IN  IF Since(currentTime, lastButtonPressTime) > DEBOUNCE_DELAY
               THEN /\ lastButtonPressTime' = lastButtonPressTime
                    /\ currentSong' = PrevSong(currentSong)
           ELSE UNCHANGED << lastButtonPressTime, currentSong >>
    /\ ppc' = "loop"
    /\ UNCHANGED << recVars, image, openStreams, card, previousMillis,
                    previousImageMillis, currentImage, clockTicks, imageAdvances,
                    bmp, bmpExit, tft2, play >>

\* lines 135-139: the held button, debounced
LoopPressedAt(wraps) ==
    /\ image = "player" /\ ppc = "pressed"
    /\ \E d \in Elapsed : Millis(wraps, d)
    /\ LET currentTime == now'
       IN  IF Since(currentTime, lastButtonPressTime) > DEBOUNCE_DELAY
               THEN /\ lastButtonPressTime' = currentTime
                    /\ currentSong' = PrevSong(currentSong)
           ELSE UNCHANGED << lastButtonPressTime, currentSong >>
    /\ ppc' = "loop"
    /\ UNCHANGED << recVars, image, openStreams, card, previousMillis,
                    previousImageMillis, currentImage, clockTicks, imageAdvances,
                    bmp, bmpExit, tft2, play >>

LoopPressed == LoopPressedAt(FALSE)

LoopPressedLive == LoopPressedAt(TRUE)

RecNext ==
    \/ RecBegin
    \/ RecOpen
    \/ RecWriteHeader
    \/ RecordChunk
    \/ RecFinalize
    \/ RecClose
    \/ UploadOpen
    \/ UploadSend

BmpNext ==
    \/ BmpOpen
    \/ BmpMagic
    \/ BmpHeader
    \/ BmpRow
    \/ BmpPixel
    \/ BmpClose

PlayNext ==
    \/ PlayOpen
    \/ PlayChunk
    \/ PlayClose

PlayerNext ==
    \/ PlayerBegin
    \/ TextOpen
    \/ TextClose
    \/ BmpNext
    \/ LoopGates
    \/ PlayNext
    \/ LoopSample
    \/ LoopPressed

(***************************************************************************)
(* Spec: a device running either image.                                    *)
(***************************************************************************)
Init ==
    /\ image \in {"recorder", "player"}
    /\ openStreams = << >>
    /\ RecInit
    /\ PlayerInit

Next == RecNext \/ PlayerNext

Spec == Init /\ [][Next]_vars

(***************************************************************************)
(* SpecBMP: displayBMP on its own, as setup() calls it (line 111), over    *)
(* the wide set of images.                                                 *)
(***************************************************************************)
InitBMP ==
    /\ image = "player"
    /\ openStreams = << >>
    /\ RecInit /\ durationSec = 0
    /\ ppc = "bmp_open"
    /\ card = "wide"
    /\ now = 0 /\ previousMillis = 0 /\ previousImageMillis = 0
    /\ lastButtonPressTime = 0 /\ currentSong = 0 /\ currentImage = 1
    /\ clockTicks = 0 /\ imageAdvances = 0
    /\ tft2 = BlankScreen
    /\ bmp = [BmpIdle EXCEPT !.ret = "loop", !.entry = BlankScreen]
    /\ bmpExit = NoExit
    /\ play = PlayIdle

SpecBMP == InitBMP /\ [][BmpNext]_vars

(***************************************************************************)
(* SpecPlay: playSong on its own, as loop() calls it (line 132), over the  *)
(* long set of song files.                                                 *)
(***************************************************************************)
InitPlay ==
    /\ image = "player"
    /\ openStreams = << >>
    /\ RecInit /\ durationSec = 0
    /\ ppc = "play_open"
    /\ card = "long"
    /\ now = 0 /\ previousMillis = 0 /\ previousImageMillis = 0
    /\ lastButtonPressTime = 0 /\ currentSong \in 0..(totalSongs - 1)
    /\ currentImage = 1
    /\ clockTicks = 0 /\ imageAdvances = 0
    /\ tft2 = BlankScreen
    /\ bmp = BmpIdle
    /\ bmpExit = NoExit
    /\ play = PlayIdle

SpecPlay == InitPlay /\ [][PlayNext]_vars

\* playSong runs on: the processor keeps executing the call it is in
SpecPlayFair == SpecPlay /\ WF_vars(PlayNext)

(***************************************************************************)
(* SpecLive: the player from the point where setup() has mounted the card  *)
(* (line 92), running loop() for ever with a wrapping millisecond counter. *)
(* The card holds songs and no image file, so that every displayBMP call   *)
(* returns at line 248.  The program always takes its next step, and time  *)
(* keeps advancing: of the readings of line 118, infinitely many find the  *)
(* counter moved on.                                                       *)
(***************************************************************************)
InitLive ==
    /\ image = "player"
    /\ openStreams = << >>
    /\ RecInit /\ durationSec = 0
    /\ ppc = "text_open"
    /\ card = "no_images"
    /\ now = 0 /\ previousMillis = 0 /\ previousImageMillis = 0
    /\ lastButtonPressTime = 0 /\ currentSong = 0 /\ currentImage = 1
    /\ clockTicks = 0 /\ imageAdvances = 0
    /\ tft2 = BlankScreen
    /\ bmp = BmpIdle
    /\ bmpExit = NoExit
    /\ play = PlayIdle

LiveNext ==
    \/ TextOpen
    \/ TextClose
    \/ BmpOpen
    \/ LoopGatesLive
    \/ PlayNext
    \/ LoopSample
    \/ LoopPressedLive

SpecLive ==
    /\ InitLive /\ [][LiveNext]_vars
    /\ WF_vars(LiveNext)
    /\ SF_vars(LoopGatesLive /\ now' # now)

(***************************************************************************)
(* SpecButton: lines 134-142 on their own, entered with the counter just   *)
(* below, at and above the debounce window of a press at time 0.           *)
(***************************************************************************)
ButtonTimes == {0, 1, 49, 50, 51, 52}

InitButton ==
    /\ image = "player"
    /\ openStreams = << >>
    /\ RecInit /\ durationSec = 0
    /\ ppc = "button"
    /\ card = "small"
    /\ now \in ButtonTimes
    /\ previousMillis = 0 /\ previousImageMillis = 0
    /\ lastButtonPressTime = 0 /\ currentSong \in 0..(totalSongs - 1)
    /\ currentImage = 1
    /\ clockTicks = 0 /\ imageAdvances = 0
    /\ tft2 = BlankScreen
    /\ bmp = BmpIdle
    /\ bmpExit = NoExit
    /\ play = PlayIdle

ButtonNext == LoopSample \/ LoopPressed

SpecButton == InitButton /\ [][ButtonNext]_vars

(***************************************************************************)
(* Properties.                                                             *)
(***************************************************************************)
Has(ev) == \E i \in 1..Len(events) : events[i] = ev

IsPrefix(s, t) == Len(s) <= Len(t) /\ \A i \in 1..Len(s) : s[i] = t[i]

\* C1: WAV round trip.  Once the header, n payload bytes (in any chunking,
\* n = 0 included) and the finalization have been written, the file is
\* 44 + n bytes long, the little-endian field at offset 4 reads
\* totalLength - 8 and the one at offset 40 reads totalLength - 44.
C1_WavRoundTrip ==
    (image = "recorder" /\ Has("finalize") /\ sdOk) =>
        /\ wav.size = 44 + payloadBytes
        /\ FieldLE(wav.hdr, 4) = wav.size - 8
        /\ FieldLE(wav.hdr, 40) = wav.size - 44

\* a finalized file whose payload was written in full and partial chunks
C1_Witness ==
    /\ image = "recorder" /\ rpc = "done" /\ Has("finalize") /\ sdOk
    /\ payloadBytes > REC_BUFFER_BYTES
    /\ payloadBytes % REC_BUFFER_BYTES # 0

\* recordAudio has returned
Recorded ==
    image = "recorder" /\ (rpc \in {"close", "upload", "send"} \/ Has("finalize"))

\* C2: BMP row order.  When displayBMP has drawn a valid 24-bit bitmap of
\* width w and height magnitude H, the pixel at column c of destination row
\* r is the BGR pixel stored at offset + (H-1-r)*stride + 3c for a positive
\* stored height and at offset + r*stride + 3c for a negative one.
C2_RowOrder ==
    (image = "player" /\ ppc = "bmp_close") =>
        \A r \in 0..(bmp.bmpHeight - 1), c \in 0..(bmp.bmpWidth - 1) :
            LET src == IF bmp.flip THEN bmp.bmpHeight - 1 - r ELSE r
                at == bmp.bmpImageOffset + src * StrideOnDisk(bmp.bmpWidth) + 3 * c
            IN  /\ << c, r >> \in DOMAIN tft2.px
                /\ tft2.px[<< c, r >>] =
                       color565(bmp.data[at + 3], bmp.data[at + 2], bmp.data[at + 1])

\* C3: capture duration exactness.  recordAudio(durationSec) returns with
\* samplesRecorded equal to exactly SAMPLE_RATE * durationSec.
C3_ExactDuration ==
    Recorded => samplesRecorded = SAMPLE_RATE * durationSec

\* C4: end-to-end capture size.  open, writeWavHeader, recordAudio(3) at
\* 16000 Hz / 16 bit / mono, finalizeWavHeader, close leave a file of
\* 96044 bytes whose data-size field reads 96000.
C4_CaptureFileSize ==
    (image = "recorder" /\ durationSec = 3 /\ Has("close") /\ sdOk) =>
        /\ wav.size = 96044
        /\ FieldLE(wav.hdr, 40) = 96000

\* C5: playback chunk delivery.  For every chunk of k bytes playSong reads,
\* the transmit channel has consumed k - (k mod 2) bytes before the next
\* chunk is read, also when a transmit call accepts only a part.
C5_ChunkFullyTransmitted ==
    (image = "player" /\ ppc = "play_chunk" /\ play.chunk > 0) =>
        play.bytesWritten = play.chunk - (play.chunk % 2)

\* the file is one displayBMP may decode: magic "BM", 24 bits per pixel,
\* compression 0 (fields at their offsets 0, 28 and 30)
WellFormed(d) ==
    /\ Len(d) >= 34
    /\ d[1] = 66 /\ d[2] = 77
    /\ d[29] = 24 /\ d[30] = 0
    /\ \A i \in 31..34 : d[i] = 0

Decoding == image = "player" /\ ppc \in {"bmp_row", "bmp_pixel", "bmp_close"}

\* C6: format rejection.  A file without the magic "BM" is rejected after
\* its first two bytes, no further field being read; only a file with the
\* magic, 24 bits per pixel and compression 0 is decoded; and a call that
\* ends in a format error has made no render-sink call and has left the
\* frame as it was.
C6_FormatRejection ==
    /\ Decoding => WellFormed(bmp.data)
    /\ (image = "player" /\ ppc = "bmp_header") =>
           (bmp.data[1] = 66 /\ bmp.data[2] = 77 /\ bmp.sinkCalls = 0)
    /\ bmpExit.result = "badmagic" => bmpExit.bytesRead <= 2
    /\ bmpExit.result \in {"badmagic", "badformat"} =>
           (bmpExit.sinkCalls = 0 /\ ~bmpExit.frameChanged)

\* a file was rejected for its format while an earlier frame was on display
C6_Witness ==
    /\ bmpExit.result = "badformat"
    /\ tft2.px # << >>

\* C7: stream lifecycle.  A stream is open only while the operation that
\* opened it is running: displayBMP, playSong, displayTextFromFile, the
\* capture sequence of setup, uploadToDeepgram; every exit path of the
\* operation closes it.
C7_StreamLifecycle ==
    \A i \in 1..Len(openStreams) :
        LET st == openStreams[i]
        IN  /\ st = "bmpFile" =>
                   (image = "player"
                      /\ ppc \in {"bmp_magic", "bmp_header", "bmp_row", "bmp_pixel",
                                  "bmp_close"})
            /\ st = "textFile" => (image = "player" /\ ppc = "text_close")
            /\ st = "uploadFile" => (image = "recorder" /\ rpc = "send")
            /\ st = "audioFile" =>
                   \/ image = "player" /\ ppc = "play_chunk"
                   \/ image = "recorder" /\ rpc \in {"header", "record", "close"}

\* displayBMP has returned through a format error and no stream is open
C7_Witness ==
    /\ image = "player" /\ ppc = "play_open"
    /\ bmpExit.result \in {"badmagic", "badformat"}
    /\ openStreams = << >>

\* C8: single open stream.  In every reachable state of either image at
\* most one storage stream is open.
C8_SingleOpenStream == Len(openStreams) <= 1

\* a song is streaming in a loop iteration that follows a rejected image
C8_Witness ==
    /\ image = "player" /\ ppc = "play_chunk" /\ now > 0
    /\ bmpExit.result = "badmagic"
    /\ openStreams = << "audioFile" >>

CaptureOrder == << "open", "header", "payload", "finalize", "close", "upload" >>
CaptureOrderEmpty == << "open", "header", "finalize", "close", "upload" >>

\* C9: WAV finalization ordering.  The events of the capture sequence occur
\* in the order header write, payload writes, finalization, close, upload;
\* the two seeks of the finalization are the only seeks and happen once;
\* the stream stays open until it is closed after the finalization.
C9_FinalizationOrder ==
    image = "recorder" =>
        /\ IsPrefix(events, CaptureOrder) \/ IsPrefix(events, CaptureOrderEmpty)
        /\ wav.seeks = (IF Has("finalize") THEN 2 ELSE 0)
        /\ (events # << >> /\ ~Has("close")) => openStreams = << "audioFile" >>
        /\ Has("close") => (Has("finalize") /\ "audioFile" \notin
                                {openStreams[i] : i \in 1..Len(openStreams)})

\* the whole capture sequence has run, payload included
C9_Witness == image = "recorder" /\ rpc = "done" /\ events = CaptureOrder

\* C10: a failed write to the capture stream aborts the capture: after it
\* no further chunk is counted as recorded.
C10_WriteFailureAborts ==
    [][(image = "recorder" /\ ~sdOk) => samplesRecorded' = samplesRecorded]_vars

\* C11: an unavailable stream is a no-op.  When the file playSong asks for
\* cannot be opened, playSong transmits nothing, leaves no stream open and
\* loop() goes on to the button; when the capture file cannot be opened,
\* setup writes no header, receives nothing, finalizes nothing, uploads
\* nothing and does nothing more.
C11_UnavailableStream ==
    /\ []( (image = "player" /\ play.result = "nofile") =>
              /\ ppc = "button"
              /\ openStreams = << >>
              /\ play.chunk = 0 /\ play.bytesRead = 0 /\ play.bytesWritten = 0 )
    /\ []( (image = "recorder" /\ rpc = "no_file") =>
              /\ events = << >>
              /\ wav = EmptyFile
              /\ samplesRecorded = 0 /\ payloadBytes = 0
              /\ openStreams = << >> )
    /\ [][ ~(image = "recorder" /\ rpc = "no_file") ]_vars

\* a later iteration of loop() has found its song file missing
C11_Witness ==
    /\ image = "player" /\ ppc = "button"
    /\ play.result = "nofile" /\ now > 0

\* C12: no starvation in the cooperative loop.  With every call returning
\* and time advancing, the clock tick, the slideshow advance, the playback
\* pass and the sampling of the button each happen infinitely often.
C12_NoStarvation ==
    /\ []<><< ppc = "loop" /\ previousMillis' # previousMillis >>_vars
    /\ []<><< ppc = "loop" /\ currentImage' # currentImage >>_vars
    /\ []<><< ppc = "play_open" /\ ppc' # "play_open" >>_vars
    /\ []<><< ppc = "button" /\ ppc' # "button" >>_vars

\* after two slideshow advances and a wrap of the counter a tick has just
\* happened and the playback pass is about to start
C12_Witness ==
    /\ image = "player" /\ ppc = "play_open"
    /\ currentImage = 3
    /\ now < previousImageMillis /\ previousMillis = now

\* C13: row stride.  For every width w >= 0 the row stride displayBMP
\* computes is the smallest multiple of 4 that is >= 3*w.
C13_RowStride ==
    Decoding =>
        /\ bmp.rowSize % 4 = 0
        /\ bmp.rowSize >= 3 * bmp.bmpWidth
        /\ \A m \in 0..(bmp.rowSize - 1) : ~(m % 4 = 0 /\ m >= 3 * bmp.bmpWidth)

\* width 5 is being decoded with stride 16
C13_Witness == Decoding /\ bmp.bmpWidth = 5 /\ bmp.rowSize = 16

\* C14: placeholder invariant.  From the end of writeWavHeader until
\* finalizeWavHeader begins, the bytes at offsets 4..7 and 40..43 of the
\* capture file are zero, the write position never decreases, no header
\* byte changes and every payload write appends at the end of the file.
C14_Placeholder ==
    /\ [](  (image = "recorder" /\ rpc = "record") =>
              /\ wav.pos = wav.size
              /\ sdOk => Len(wav.hdr) = WAV_HEADER_BYTES
              /\ \A i \in (5..8) \cup (41..44) :
                     i <= Len(wav.hdr) => wav.hdr[i] = 0 )
    /\ [][ (image = "recorder" /\ rpc = "record" /\ rpc' = "record") =>
              /\ wav'.pos >= wav.pos
              /\ wav'.hdr = wav.hdr
              /\ wav'.size - wav.size = wav'.pos - wav.pos ]_vars

\* payload has been appended behind a complete header, not yet finalized
C14_Witness ==
    /\ image = "recorder" /\ rpc = "record" /\ sdOk
    /\ payloadBytes > 0 /\ wav.size = WAV_HEADER_BYTES + payloadBytes

\* C15: playlist stepping.  In one iteration of loop(): a button read
\* inactive moves currentSong to (currentSong + 1) mod totalSongs; a button
\* read active more than DEBOUNCE_DELAY ms after lastButtonPressTime moves
\* it to (currentSong - 1) mod totalSongs and sets lastButtonPressTime to
\* the time read; a button read active within the window changes neither.
C15_PlaylistStepping ==
    [][ /\ (ppc = "button" /\ ppc' = "loop") =>
              /\ currentSong' = (currentSong + 1) % totalSongs
              /\ lastButtonPressTime' = lastButtonPressTime
        /\ (ppc = "button" /\ ppc' = "pressed") =>
              UNCHANGED << currentSong, lastButtonPressTime >>
        /\ ppc = "pressed" =>
              IF now' - lastButtonPressTime > DEBOUNCE_DELAY
                  THEN /\ currentSong' = (currentSong + totalSongs - 1) % totalSongs
                       /\ lastButtonPressTime' = now'
              ELSE UNCHANGED << currentSong, lastButtonPressTime >> ]_vars

\* a press read 51 ms after the last one has stepped back from song 0 to 4
C15_Witness ==
    /\ image = "player" /\ ppc = "loop"
    /\ now = DEBOUNCE_DELAY + 1 /\ lastButtonPressTime = now
    /\ currentSong = totalSongs - 1

\* C16: cursor bounds.  Always 0 <= currentSong < totalSongs and
\* 1 <= currentImage <= totalImages; the slideshow goes 1, 2, ...,
\* totalImages, 1, ...; and every change of currentSong is by one, up or
\* down, modulo totalSongs.
C16_CursorBounds ==
    /\ []( /\ 0 <= currentSong /\ currentSong < totalSongs
           /\ 1 <= currentImage /\ currentImage <= totalImages )
    /\ [][ /\ currentImage' # currentImage =>
                 currentImage' = (IF currentImage = totalImages THEN 1
                                  ELSE currentImage + 1)
           /\ currentSong' # currentSong =>
                 \/ currentSong' = (IF currentSong = totalSongs - 1 THEN 0
                                    ELSE currentSong + 1)
                 \/ currentSong' = (IF currentSong = 0 THEN totalSongs - 1
                                    ELSE currentSong - 1) ]_vars

\* the slideshow has come round to image 1 again and the playlist has
\* stepped back from song 0 to the last one
C16_Witness ==
    /\ image = "player"
    /\ currentImage = 1 /\ previousImageMillis # 0
    /\ currentSong = totalSongs - 1 /\ lastButtonPressTime # 0

C18_OvershootBound ==
    Recorded =>
        /\ SAMPLE_RATE * durationSec <= samplesRecorded
        /\ samplesRecorded < SAMPLE_RATE * durationSec + 512

\* recordAudio has returned past its target
C18_Witness ==
    Recorded /\ durationSec > 0 /\ samplesRecorded > SAMPLE_RATE * durationSec

\* C19: the clock never runs ahead.  One iteration of loop() advances the
\* clock at most once and the slideshow at most once; interval times the
\* number of clock advances, and imageInterval times the number of
\* slideshow advances, are at most the milliseconds since boot.
C19_ClockNeverAhead ==
    /\ []( image = "player" =>
              /\ interval * clockTicks <= now
              /\ imageInterval * imageAdvances <= now )
    /\ [][ /\ clockTicks' \in {clockTicks, clockTicks + 1}
           /\ imageAdvances' \in {imageAdvances, imageAdvances + 1}
           /\ (clockTicks' # clockTicks \/ imageAdvances' # imageAdvances) =>
                  ppc = "loop" ]_vars

\* the clock has ticked every second and the slideshow has advanced once
C19_Witness ==
    /\ image = "player"
    /\ clockTicks > 1 /\ interval * clockTicks = now
    /\ imageAdvances = 1

\* C20: row-cache index bounds.  At every point of displayBMP buffidx is a
\* multiple of 3 between 0 and 60, and a pixel is taken from the cache
\* bytes buffidx..buffidx+2 with buffidx + 2 <= 59.
C20_CacheIndexBounds ==
    /\ []( Decoding =>
              /\ bmp.buffidx % 3 = 0
              /\ 0 <= bmp.buffidx /\ bmp.buffidx <= 60
              /\ Len(bmp.sdbuffer) = 60 )
    /\ [][ (ppc = "bmp_pixel" /\ bmp'.col = bmp.col + 1) =>
              LET taken == bmp'.buffidx - 3
              IN  0 <= taken /\ taken + 2 <= 59 /\ taken % 3 = 0 ]_vars

\* the cache has been refilled in the middle of a row (width 21)
C20_Witness ==
    /\ Decoding /\ bmp.bmpWidth = 21
    /\ bmp.col = 21 /\ bmp.buffidx = 3

====
